---- MODULE Spec2Model ----
(***************************************************************************)
(* Model of tools/lib/template_parser.py: the nesting validator            *)
(* (validate, lines 162-257) as a state machine that consumes one token    *)
(* per step, and the tokenizer (tokenize, lines 39-160) as a state machine *)
(* that runs one iteration of its main loop per step.                      *)
(*                                                                         *)
(* Spec          validate's loop over a token stream                       *)
(* SpecTokenize  tokenize's loop over a text                               *)
(***************************************************************************)
EXTENDS Integers, Sequences, FiniteSets, TLC

(***************************************************************************)
(* Bounds of the model.                                                    *)
(***************************************************************************)
\* A token stream is either wide (lines 1..WideLines, up to WideDepth open
\* frames) or deep (lines 1..DeepLines, up to DeepDepth open frames).
WideLines == 5

WideDepth == 1

DeepLines == 3

DeepDepth == 2

\* pieces of the vocabulary a text is put together from
MaxPieces == 5

\* The columns of a token: the left margin and an indented column, far enough
\* apart for any raw text of the stream to fit between them on one line.
Cols == {1, 21}

(***************************************************************************)
(* Tokens as validate reads them: kind, tag, line, col (class Token, lines *)
(* 29-37).  raw text s is read only to print the start tag, so an error    *)
(* carries the start token itself.                                         *)
(***************************************************************************)
StartKinds == {"html_start", "handlebars_start", "django_start"}

EndKinds == {"html_end", "handlebars_end", "django_end"}

InertKinds == {"html_comment", "html_special", "html_singleton", "html_singleton_end"}

\* tag names the token stream draws from, per kind
TagsOf(kind) ==
    CASE kind = "html_start"       -> {"a", "code", "if"}
      [] kind = "handlebars_start" -> {"if"}
      [] kind = "django_start"     -> {"if", "csrf_token"}
      [] kind = "html_end"         -> {"a", "code"}
      [] kind \in EndKinds         -> {"if"}
      [] kind = "html_comment"     -> {" note "}
      [] kind = "html_special"     -> {"link"}
      [] OTHER                     -> {"br"}

Token(kind, tag, line, col) == [kind |-> kind, tag |-> tag, line |-> line, col |-> col]

\* the loop variable before the first iteration
NoToken == Token("none", "", 1, 0)

VARIABLES
    limit,          \* the size of the token stream: its lines and its nesting depth
    check_indent,   \* validate's parameter
    matcher,        \* state.matcher: the closure chain, innermost start token first
    depth,          \* state.depth
    token,          \* the loop variable of "for token in tokens"
    vpc,            \* "loop", "ok" (returned) or "error" (raised)
    verr,           \* the TemplateParserException validate raised
    ref,            \* reference stack of open constructs, for the nesting claims
    wellNested,     \* every closer so far closed the last open construct of its grammar and name
    sameLine,       \* every closer so far was on its opener's line
    text,           \* tokenize's argument, a sequence of characters
    i,              \* state.i
    line,           \* state.line
    col,            \* state.col
    tokens,         \* the token list
    tpc,            \* "loop", "done" (returned) or "error" (raised)
    terr,           \* the exception tokenize raised
    trail           \* what the loop has consumed, in order: skipped characters and raw texts

vvars == <<limit, check_indent, matcher, depth, token, vpc, verr, ref, wellNested, sameLine>>

tvars == <<text, i, line, col, tokens, tpc, terr, trail>>

vars == <<vvars, tvars>>

\* the exception tokenize ends with; lines 130-133 format a
\* TokenizationException with state.line and state.col
TError(exc, message, l, c, line_content, located) ==
    [exc |-> exc, message |-> message, line |-> l, col |-> c,
     line_content |-> line_content, located |-> located]

NoTError == TError("", "", 0, 0, <<>>, FALSE)

(***************************************************************************)
(* validate (lines 162-257)                                                *)
(***************************************************************************)
VError(problem, start, end_tag, end_line, end_col) ==
    [problem |-> problem, start |-> start, end_tag |-> end_tag,
     end_line |-> end_line, end_col |-> end_col]

NoError == VError("", NoToken, "", 0, 0)

\* no_start_tag with line and col swapped in the message
no_start_tag_swapped(tok) == VError("No start tag", NoToken, tok.tag, tok.col, tok.line)

\* lines 180-188
no_start_tag(tok) == VError("No start tag", NoToken, tok.tag, tok.line, tok.col)

\* max_lines with the limit of "a" left out
max_lines_one(start_tag) == 1

\* lines 208-211
max_lines(start_tag) == IF start_tag = "a" THEN 3 ELSE 1

\* f_problem with the mismatch test chained by elif after the code test
f_problem_code_first(start_token, end_token, indent) ==
    IF start_token.tag = "code" /\ end_token.line = start_token.line + 1
    THEN "Code tag is split across two lines."
    ELSE IF start_token.tag # end_token.tag
         THEN "Mismatched tag."
         ELSE IF indent /\ end_token.line > start_token.line + max_lines(start_token.tag)
                        /\ end_token.col # start_token.col
              THEN "Bad indentation."
              ELSE ""

\* f_problem with the indentation test not guarded by check_indent
f_problem_always_indent(start_token, end_token, indent) ==
    LET split == IF start_token.tag = "code" /\ end_token.line = start_token.line + 1
                 THEN "Code tag is split across two lines."
                 ELSE ""
    IN  IF start_token.tag # end_token.tag
        THEN "Mismatched tag."
        ELSE IF end_token.line > start_token.line + max_lines(start_token.tag)
             THEN IF end_token.col # start_token.col THEN "Bad indentation." ELSE split
             ELSE split

\* f_problem with the indentation test written >= instead of >
f_problem_indent_geq(start_token, end_token, indent) ==
    LET split == IF start_token.tag = "code" /\ end_token.line = start_token.line + 1
                 THEN "Code tag is split across two lines."
                 ELSE ""
    IN  IF start_token.tag # end_token.tag
        THEN "Mismatched tag."
        ELSE IF indent /\ end_token.line >= start_token.line + max_lines(start_token.tag)
             THEN IF end_token.col # start_token.col THEN "Bad indentation." ELSE split
             ELSE split

\* f_problem that also asks the end token to be of the start token's grammar
f_problem_same_grammar(start_token, end_token, indent) ==
    LET split == IF start_token.tag = "code" /\ end_token.line = start_token.line + 1
                 THEN "Code tag is split across two lines."
                 ELSE ""
        same == \E g \in {{"html_start", "html_end"}, {"handlebars_start", "handlebars_end"},
                          {"django_start", "django_end"}} :
                    start_token.kind \in g /\ end_token.kind \in g
    IN  IF start_token.tag # end_token.tag \/ ~same
        THEN "Mismatched tag."
        ELSE IF indent /\ end_token.line > start_token.line + max_lines(start_token.tag)
             THEN IF end_token.col # start_token.col THEN "Bad indentation." ELSE split
             ELSE split

\* lines 213-220: problem is assigned in this order, a later assignment
\* overwriting an earlier one; "" stands for None
f_problem(start_token, end_token, indent) ==
    LET split == IF start_token.tag = "code" /\ end_token.line = start_token.line + 1
                 THEN "Code tag is split across two lines."
                 ELSE ""
    IN  IF start_token.tag # end_token.tag
        THEN "Mismatched tag."
        ELSE IF indent /\ end_token.line > start_token.line + max_lines(start_token.tag)
             THEN IF end_token.col # start_token.col THEN "Bad indentation." ELSE split
             ELSE split

\* is_django_block_tag that takes every tag for a block tag
is_django_block_tag_any(tag) == tag # ""

\* lines 263-276
is_django_block_tag(tag) ==
    tag \in {"autoescape", "block", "comment", "for", "if", "ifequal",
             "verbatim", "blocktrans", "trans", "raw"}

\* The token stream: what tokenize can hand to the loop after prev.  Tokens
\* come in source order; the synthetic html_singleton_end follows its
\* html_singleton (lines 146-158), carries its tag and takes no room of its
\* own, so the token after it may stand at its position.
Follows(prev, t) ==
    /\ (t.kind = "html_singleton_end") = (prev.kind = "html_singleton")
    /\ prev.kind = "html_singleton" => t.tag = prev.tag
    /\ IF prev.kind = "html_singleton_end"
       THEN t.line > prev.line \/ (t.line = prev.line /\ t.col >= prev.col)
       ELSE t.line > prev.line \/ (t.line = prev.line /\ t.col > prev.col)

NextTokens(kinds) ==
    {t \in UNION {{Token(k, tag, l, c) : tag \in TagsOf(k), l \in 1..limit.lines, c \in Cols} :
                  k \in kinds} : Follows(token, t)}

\* The reference the nesting claims are stated against: the open constructs
\* by grammar, name and line.
Grammar(kind) ==
    CASE kind \in {"html_start", "html_end"}             -> "html"
      [] kind \in {"handlebars_start", "handlebars_end"} -> "handlebars"
      [] OTHER                                           -> "django"

\* the Django tags that open a block and need an end tag
BlockTagNames ==
    {"autoescape", "block", "comment", "for", "if", "ifequal",
     "verbatim", "blocktrans", "trans", "raw"}

RefOpen(tok) ==
    /\ ref' = <<[grammar |-> Grammar(tok.kind), tag |-> tok.tag, line |-> tok.line]>> \o ref
    /\ UNCHANGED <<wellNested, sameLine>>

RefClose(tok) ==
    IF ref # <<>> /\ Head(ref).grammar = Grammar(tok.kind) /\ Head(ref).tag = tok.tag
    THEN /\ ref' = Tail(ref)
         /\ sameLine' = (sameLine /\ tok.line = Head(ref).line)
         /\ UNCHANGED wellNested
    ELSE /\ ref' = IF ref = <<>> THEN ref ELSE Tail(ref)
         /\ wellNested' = FALSE
         /\ UNCHANGED sameLine

\* start_tag_matcher whose closure does not keep the matcher it replaces
start_tag_matcher_forgets(start_token) ==
    /\ depth' = depth + 1
    /\ matcher' = <<start_token>>
    /\ UNCHANGED <<vpc, verr>>

\* lines 192-199, 234: start_tag_matcher(start_token)
start_tag_matcher(start_token) ==
    /\ depth' = depth + 1
    /\ matcher' = <<start_token>> \o matcher
    /\ UNCHANGED <<vpc, verr>>

\* f without "state.depth -= 1"
f_keeps_depth(start_token, end_token) ==
    LET problem == f_problem(start_token, end_token, check_indent)
    IN  IF problem # ""
        THEN /\ vpc' = "error"
             /\ verr' = VError(problem, start_token, end_token.tag,
                               end_token.line, end_token.col)
             /\ UNCHANGED <<matcher, depth>>
        ELSE /\ matcher' = Tail(matcher)
             /\ UNCHANGED <<depth, vpc, verr>>

\* f without "state.matcher = old_matcher"
f_keeps_matcher(start_token, end_token) ==
    LET problem == f_problem(start_token, end_token, check_indent)
    IN  IF problem # ""
        THEN /\ vpc' = "error"
             /\ verr' = VError(problem, start_token, end_token.tag,
                               end_token.line, end_token.col)
             /\ UNCHANGED <<matcher, depth>>
        ELSE /\ depth' = depth - 1
             /\ UNCHANGED <<matcher, vpc, verr>>

\* lines 201-233: the closure f made for start_token, called with end_token
f(start_token, end_token) ==
    LET problem == f_problem(start_token, end_token, check_indent)
    IN  IF problem # ""
        THEN /\ vpc' = "error"
             /\ verr' = VError(problem, start_token, end_token.tag,
                               end_token.line, end_token.col)
             /\ UNCHANGED <<matcher, depth>>
        ELSE /\ matcher' = Tail(matcher)
             /\ depth' = depth - 1
             /\ UNCHANGED <<vpc, verr>>

\* state.matcher(token): no_start_tag, or the closure of the innermost start token
CallMatcher(end_token) ==
    IF matcher = <<>>
    THEN /\ vpc' = "error"
         /\ verr' = no_start_tag(end_token)
         /\ UNCHANGED <<matcher, depth>>
    ELSE f(Head(matcher), end_token)

\* lines 240-241
HtmlStart ==
    /\ vpc = "loop"
    /\ Len(matcher) < limit.depth
    /\ \E tok \in NextTokens({"html_start"}) :
        /\ token' = tok
        /\ start_tag_matcher(tok)
        /\ RefOpen(tok)
    /\ UNCHANGED <<limit, check_indent, tvars>>

\* lines 242-243
HtmlEnd ==
    /\ vpc = "loop"
    /\ \E tok \in NextTokens({"html_end"}) :
        /\ token' = tok
        /\ CallMatcher(tok)
        /\ RefClose(tok)
    /\ UNCHANGED <<limit, check_indent, tvars>>

\* lines 245-246
HandlebarsStart ==
    /\ vpc = "loop"
    /\ Len(matcher) < limit.depth
    /\ \E tok \in NextTokens({"handlebars_start"}) :
        /\ token' = tok
        /\ start_tag_matcher(tok)
        /\ RefOpen(tok)
    /\ UNCHANGED <<limit, check_indent, tvars>>

\* lines 247-248
HandlebarsEnd ==
    /\ vpc = "loop"
    /\ \E tok \in NextTokens({"handlebars_end"}) :
        /\ token' = tok
        /\ CallMatcher(tok)
        /\ RefClose(tok)
    /\ UNCHANGED <<limit, check_indent, tvars>>

\* lines 250-252
DjangoStart ==
    /\ vpc = "loop"
    /\ \E tok \in NextTokens({"django_start"}) :
        /\ token' = tok
        /\ IF is_django_block_tag(tok.tag)
           THEN /\ Len(matcher) < limit.depth
                /\ start_tag_matcher(tok)
           ELSE UNCHANGED <<matcher, depth, vpc, verr>>
        /\ IF tok.tag \in BlockTagNames
           THEN RefOpen(tok)
           ELSE UNCHANGED <<ref, wellNested, sameLine>>
    /\ UNCHANGED <<limit, check_indent, tvars>>

\* lines 253-254
DjangoEnd ==
    /\ vpc = "loop"
    /\ \E tok \in NextTokens({"django_end"}) :
        /\ token' = tok
        /\ CallMatcher(tok)
        /\ RefClose(tok)
    /\ UNCHANGED <<limit, check_indent, tvars>>

\* lines 236-254: a token of any other kind falls through the if/elif chain
OtherToken ==
    /\ vpc = "loop"
    /\ \E tok \in NextTokens(InertKinds) : token' = tok
    /\ UNCHANGED <<limit, check_indent, matcher, depth, vpc, verr, ref, wellNested, sameLine, tvars>>

\* lines 256-257: the token list is exhausted
EndOfTokens ==
    /\ vpc = "loop"
    /\ token.kind # "html_singleton"
    /\ IF depth # 0
       THEN /\ vpc' = "error"
            /\ verr' = VError("Missing end tag", NoToken, "", 0, 0)
       ELSE /\ vpc' = "ok"
            /\ UNCHANGED verr
    /\ UNCHANGED <<limit, check_indent, matcher, depth, token, ref, wellNested, sameLine, tvars>>

\* lines 162-190: validate is entered with the tokens of some text
Init ==
    /\ limit \in {[lines |-> WideLines, depth |-> WideDepth],
                  [lines |-> DeepLines, depth |-> DeepDepth]}
    /\ check_indent \in BOOLEAN
    /\ matcher = <<>>
    /\ depth = 0
    /\ token = NoToken
    /\ vpc = "loop"
    /\ verr = NoError
    /\ ref = <<>>
    /\ wellNested = TRUE
    /\ sameLine = TRUE
    /\ text = <<>>
    /\ i = 0
    /\ line = 1
    /\ col = 1
    /\ tokens = <<>>
    /\ tpc = "done"
    /\ terr = NoTError
    /\ trail = <<>>

Next ==
    \/ HtmlStart
    \/ HtmlEnd
    \/ HandlebarsStart
    \/ HandlebarsEnd
    \/ DjangoStart
    \/ DjangoEnd
    \/ OtherToken
    \/ EndOfTokens

Spec == Init /\ [][Next]_vars

(***************************************************************************)
(* tokenize (lines 39-160) and its scanners (lines 259-329).  A text is a  *)
(* sequence of one-character strings; Python's 0-based text[k] is At(t, k).*)
(***************************************************************************)
At(t, k) == t[k + 1]

\* t[a:b] for a >= 0; a negative b counts from the end, as in Python
PySlice(t, a, b) ==
    LET hi == IF b < 0
              THEN (IF Len(t) + b < 0 THEN 0 ELSE Len(t) + b)
              ELSE (IF b > Len(t) THEN Len(t) ELSE b)
    IN  IF a >= hi THEN <<>> ELSE SubSeq(t, a + 1, hi)

\* t[a:]
PyFrom(t, a) == PySlice(t, a, Len(t))

\* the characters str.split() splits at, among those of the texts
IsSpace(c) == c \in {" ", "\n"}

RECURSIVE SkipSpace(_)
SkipSpace(t) == IF t # <<>> /\ IsSpace(Head(t)) THEN SkipSpace(Tail(t)) ELSE t

RECURSIVE TakeWord(_)
TakeWord(t) == IF t = <<>> \/ IsSpace(Head(t)) THEN <<>> ELSE <<Head(t)>> \o TakeWord(Tail(t))

\* t.split()[0], or <<>> when t.split() is empty
FirstWord(t) == TakeWord(SkipSpace(t))

RECURSIVE CountNewlines(_)
CountNewlines(t) ==
    IF t = <<>> THEN 0 ELSE (IF Head(t) = "\n" THEN 1 ELSE 0) + CountNewlines(Tail(t))

\* what a scanner or a tag extraction ends with: a value, or an exception
Return(v) == [exc |-> "", value |-> v, message |-> "", line_content |-> <<>>]

\* lines 16-20: TokenizationException(message, line_content)
RaiseTokenization(message, line_content) ==
    [exc |-> "TokenizationException", value |-> <<>>, message |-> message,
     line_content |-> line_content]

\* a subscript out of range
RaiseIndexError == [exc |-> "IndexError", value |-> <<>>, message |-> "", line_content |-> <<>>]

\* lines 7-10: TemplateParserException(message), raised by tokenize itself
RaiseTemplateParser(message) ==
    [exc |-> "TemplateParserException", value |-> <<>>, message |-> message,
     line_content |-> <<>>]

\* the loop of get_html_tag stopping at the first >, quoted or not
RECURSIVE HtmlTagScanFirstGt(_, _, _, _)
HtmlTagScanFirstGt(t, end, q, u) ==
    IF end < Len(t) /\ At(t, end) # ">"
    THEN HtmlTagScanFirstGt(t, end + 1,
                            IF At(t, end) = "\"" THEN q + 1 ELSE q,
                            IF u = 0 /\ At(t, end) = "<" THEN end ELSE u)
    ELSE [end |-> end, quote_count |-> q, unclosed_end |-> u]

\* lines 300-308: the loop of get_html_tag, from end with quote_count q and
\* unclosed_end u
RECURSIVE HtmlTagScan(_, _, _, _)
HtmlTagScan(t, end, q, u) ==
    IF end < Len(t) /\ (At(t, end) # ">" \/ (q % 2 # 0 /\ At(t, end) # "<"))
    THEN HtmlTagScan(t, end + 1,
                     IF At(t, end) = "\"" THEN q + 1 ELSE q,
                     IF u = 0 /\ At(t, end) = "<" THEN end ELSE u)
    ELSE [end |-> end, quote_count |-> q, unclosed_end |-> u]

\* get_html_tag with the end-of-input test made before the quote test
get_html_tag_end_first(t, k) ==
    LET r == HtmlTagScan(t, k + 1, 0, 0)
    IN  IF r.end = Len(t) \/ At(t, r.end) # ">"
        THEN RaiseTokenization("Tag missing \">\"", PySlice(t, k, r.end + 1))
        ELSE IF r.quote_count % 2 # 0
             THEN RaiseTokenization("Unbalanced Quotes", PySlice(t, k, r.end + 1))
             ELSE Return(PySlice(t, k, r.end + 1))

\* lines 298-317
get_html_tag(t, k) ==
    LET r == HtmlTagScan(t, k + 1, 0, 0)
    IN  IF r.quote_count % 2 # 0
        THEN IF r.unclosed_end # 0
             THEN RaiseTokenization("Unbalanced Quotes", PySlice(t, k, r.unclosed_end))
             ELSE RaiseTokenization("Unbalanced Quotes", PySlice(t, k, r.end + 1))
        ELSE IF r.end = Len(t) \/ At(t, r.end) # ">"
             THEN RaiseTokenization("Tag missing \">\"", PySlice(t, k, r.end + 1))
             ELSE Return(PySlice(t, k, r.end + 1))

\* lines 321-329: the loop of get_html_comment, from end with unclosed_end u.
\* text[end] is read only while unclosed_end is 0, and end may be len(text).
RECURSIVE HtmlCommentScan(_, _, _, _)
HtmlCommentScan(t, k, end, u) ==
    IF end <= Len(t)
    THEN IF PySlice(t, end - 3, end) = <<"-", "-", ">">>
         THEN Return(PySlice(t, k, end))
         ELSE IF u = 0
              THEN IF end = Len(t)
                   THEN RaiseIndexError
                   ELSE HtmlCommentScan(t, k, end + 1, IF At(t, end) = "<" THEN end ELSE u)
              ELSE HtmlCommentScan(t, k, end + 1, u)
    ELSE RaiseTokenization("Unclosed comment", PySlice(t, k, u))

\* lines 319-329
get_html_comment(t, k) == HtmlCommentScan(t, k, k + 7, 0)

\* lines 281-282 and 291-292: the loop of a delimiter scanner
RECURSIVE DelimiterScan(_, _, _)
DelimiterScan(t, end, c) ==
    IF end < Len(t) - 1 /\ At(t, end) # c THEN DelimiterScan(t, end + 1, c) ELSE end

\* lines 280-286 and 290-296: text[end + 1] is read when text[end] is c, and
\* end + 1 may be len(text)
get_delimited_tag(t, k, c, message) ==
    LET end == DelimiterScan(t, k + 2, c)
    IN  IF At(t, end) # c
        THEN RaiseTokenization(message, PySlice(t, k, end + 2))
        ELSE IF end + 1 >= Len(t)
             THEN RaiseIndexError
             ELSE IF At(t, end + 1) # "}"
                  THEN RaiseTokenization(message, PySlice(t, k, end + 2))
                  ELSE Return(PySlice(t, k, end + 2))

\* lines 278-286
get_handlebars_tag(t, k) == get_delimited_tag(t, k, "}", "Tag missing \"}}\"")

\* lines 288-296
get_django_tag(t, k) == get_delimited_tag(t, k, "%", "Tag missing \"%}\"")

\* lines 259-261
is_special_html_tag(s, tag) ==
    tag \in {<<"l", "i", "n", "k">>, <<"m", "e", "t", "a">>,
             <<"!", "D", "O", "C", "T", "Y", "P", "E">>}

\* lines 51-53
looking_at(s) == PySlice(text, i, i + Len(s)) = s

\* lines 55-57
looking_at_comment == looking_at(<<"<", "!", "-", "-">>)

\* lines 59-61
looking_at_html_start == looking_at(<<"<">>) /\ ~looking_at(<<"<", "/">>)

\* lines 63-65
looking_at_html_end == looking_at(<<"<", "/">>)

\* lines 67-69
looking_at_handlebars_start == looking_at(<<"{", "{", "#">>) \/ looking_at(<<"{", "{", "^">>)

\* lines 71-73
looking_at_handlebars_end == looking_at(<<"{", "{", "/">>)

\* lines 75-77
looking_at_django_start ==
    looking_at(<<"{", "%", " ">>) /\ ~looking_at(<<"{", "%", " ", "e", "n", "d">>)

\* lines 79-81
looking_at_django_end == looking_at(<<"{", "%", " ", "e", "n", "d">>)

\* a scanned raw text with its tag and kind, or the exception carried on
Scanned(r, kind, tag) ==
    IF r.exc # "" THEN r ELSE Return([s |-> r.value, tag |-> tag, kind |-> kind])

\* s[a:b].split()[0]: a subscript out of range when s[a:b] holds no word
FirstWordOrIndexError(r, kind, a, b) ==
    IF r.exc # "" THEN r
    ELSE IF FirstWord(PySlice(r.value, a, b)) = <<>> THEN RaiseIndexError
    ELSE Scanned(r, kind, FirstWord(PySlice(r.value, a, b)))

\* lines 92-106
HtmlStartTag(r) ==
    IF r.exc # "" THEN r
    ELSE LET tag == FirstWord(PySlice(r.value, 1, -1))
         IN  IF tag = <<>> THEN RaiseTemplateParser("Tag name missing")
             ELSE IF is_special_html_tag(r.value, tag) THEN Scanned(r, "html_special", tag)
             ELSE IF PyFrom(r.value, Len(r.value) - 2) = <<"/", ">">>
                  THEN Scanned(r, "html_singleton", tag)
                  ELSE Scanned(r, "html_start", tag)

\* lines 88-129: the try block at the cursor; "skip" is the else branch
Recognize ==
    IF looking_at_comment
    THEN LET r == get_html_comment(text, i) IN Scanned(r, "html_comment", PySlice(r.value, 4, -3))
    ELSE IF looking_at_html_start
    THEN HtmlStartTag(get_html_tag(text, i))
    ELSE IF looking_at_html_end
    THEN LET r == get_html_tag(text, i) IN Scanned(r, "html_end", PySlice(r.value, 2, -1))
    ELSE IF looking_at_handlebars_start
    THEN FirstWordOrIndexError(get_handlebars_tag(text, i), "handlebars_start", 3, -2)
    ELSE IF looking_at_handlebars_end
    THEN LET r == get_handlebars_tag(text, i)
         IN  Scanned(r, "handlebars_end", PySlice(r.value, 3, -2))
    ELSE IF looking_at_django_start
    THEN FirstWordOrIndexError(get_django_tag(text, i), "django_start", 3, -2)
    ELSE IF looking_at_django_end
    THEN LET r == get_django_tag(text, i) IN Scanned(r, "django_end", PySlice(r.value, 6, -3))
    ELSE Return([s |-> <<>>, tag |-> <<>>, kind |-> "skip"])

\* lines 41-49: advance(n) from offset k, line l, column c
\* advance with one step too many in its range
advance_overshoot(n, k, l, c) ==
    [i |-> k + n + 1, line |-> l, col |-> c + n + 1]

\* advance that moves the offset and leaves line and column alone
advance_keeps_position(n, k, l, c) ==
    [i |-> k + n, line |-> l, col |-> c]

\* advance that takes a newline for an ordinary character
advance_no_newline(n, k, l, c) ==
    [i |-> k + n, line |-> l, col |-> c + n]

\* advance with one step too few in its range
advance_one_short(n, k, l, c) ==
    [i |-> k + n - 1, line |-> l, col |-> c + n - 1]

RECURSIVE advance(_, _, _, _)
advance(n, k, l, c) ==
    IF n = 0 THEN [i |-> k, line |-> l, col |-> c]
    ELSE IF At(text, k) = "\n"
         THEN advance(n - 1, k + 1, l + 1, 1)
         ELSE advance(n - 1, k + 1, l, c + 1)

\* lines 29-37: a token as tokenize builds it
RawToken(kind, s, tag, l, c, line_span) ==
    [kind |-> kind, s |-> s, tag |-> tag, line |-> l, col |-> c, line_span |-> line_span]

\* lines 86-158: one iteration of the main loop
TokenizeStep ==
    /\ tpc = "loop"
    /\ i < Len(text)
    /\ LET r == Recognize
       IN  IF r.exc = "TokenizationException"
           THEN /\ tpc' = "error"
                /\ terr' = TError("TemplateParserException", r.message, line, col,
                                  r.line_content, TRUE)
                /\ UNCHANGED <<i, line, col, tokens, trail>>
           ELSE IF r.exc # ""
           THEN /\ tpc' = "error"
                /\ terr' = TError(r.exc, r.message, 0, 0, <<>>, FALSE)
                /\ UNCHANGED <<i, line, col, tokens, trail>>
           ELSE IF r.value.kind = "skip"
           THEN /\ i' = advance(1, i, line, col).i
                /\ line' = advance(1, i, line, col).line
                /\ col' = advance(1, i, line, col).col
                /\ trail' = Append(trail, [kind |-> "text", s |-> <<At(text, i)>>])
                /\ UNCHANGED <<tokens, tpc, terr>>
           ELSE LET s == r.value.s
                    tag == r.value.tag
                    kind == r.value.kind
                    tk == RawToken(kind, s, tag, line, col, CountNewlines(s) + 1)
                    after == advance(Len(s), i, line, col)
                IN  /\ i' = after.i
                    /\ line' = after.line
                    /\ col' = after.col
                    /\ tokens' = IF kind = "html_singleton"
                                 THEN tokens \o <<tk, RawToken("html_singleton_end",
                                                               <<"<", "/">> \o tag \o <<">">>,
                                                               tag, after.line, after.col, 1)>>
                                 ELSE Append(tokens, tk)
                    /\ trail' = trail \o [k \in 1..(Len(tokens') - Len(tokens)) |->
                                            [kind |-> tokens'[Len(tokens) + k].kind,
                                             s |-> tokens'[Len(tokens) + k].s]]
                    /\ UNCHANGED <<tpc, terr>>
    /\ UNCHANGED <<text, vvars>>

\* lines 86, 160: the loop ends and the tokens are returned
TokenizeReturn ==
    /\ tpc = "loop"
    /\ i >= Len(text)
    /\ tpc' = "done"
    /\ UNCHANGED <<text, i, line, col, tokens, terr, trail, vvars>>

\* the pieces the texts are put together from
Vocabulary ==
    {<<"<">>, <<">">>, <<"/">>, <<"\"">>, <<" ">>, <<"\n">>, <<"b", "r">>,
     <<"l", "i", "n", "k">>}

\* the texts of at most n pieces
RECURSIVE Texts(_)
Texts(n) ==
    IF n = 0 THEN {<<>>}
    ELSE LET shorter == Texts(n - 1)
         IN  shorter \cup {t \o piece : t \in shorter, piece \in Vocabulary}

\* lines 83-84: tokenize(text) is entered
InitTokenize ==
    /\ text \in Texts(MaxPieces)
    /\ i = 0
    /\ line = 1
    /\ col = 1
    /\ tokens = <<>>
    /\ tpc = "loop"
    /\ terr = NoTError
    /\ trail = <<>>
    /\ limit = [lines |-> WideLines, depth |-> WideDepth]
    /\ check_indent = TRUE
    /\ matcher = <<>>
    /\ depth = 0
    /\ token = NoToken
    /\ vpc = "loop"
    /\ verr = NoError
    /\ ref = <<>>
    /\ wellNested = TRUE
    /\ sameLine = TRUE

NextTokenize ==
    \/ TokenizeStep
    \/ TokenizeReturn

SpecTokenize == InitTokenize /\ [][NextTokenize]_vars

(***************************************************************************)
(* tokenize on template texts: comments, handlebars and Django tags        *)
(***************************************************************************)

\* at most this many pieces in a text with comments
MaxCommentPieces == 4

\* at most this many pieces in a text with handlebars and Django delimiters
MaxBracePieces == 4

\* at most this many whole constructs in a text
MaxConstructs == 3

\* the pieces of the texts with comments
CommentVocabulary ==
    {<<"<", "!", "-", "-">>, <<"-", "-", ">">>, <<"<">>, <<"-">>, <<"x">>,
     <<"x", "x", "x">>, <<"\n">>}

\* the pieces of the texts with handlebars and Django delimiters
BraceVocabulary ==
    {<<"{", "{", "#">>, <<"{", "{", "/">>, <<"{", "%", " ">>,
     <<"{", "%", " ", "e", "n", "d">>, <<"}">>, <<"}", "}">>, <<"%">>, <<"%", "}">>,
     <<"a">>}

\* whole constructs of the three grammars, and the text between them
ConstructVocabulary ==
    {<<"<", "a", ">">>, <<"<", "/", "a", ">">>, <<"<", "b", "r", " ", "/", ">">>,
     <<"<", "!", "-", "-", "x", "-", "-", ">">>,
     <<"{", "{", "#", "i", "f", " ", "a", "}", "}">>, <<"{", "{", "/", "i", "f", "}", "}">>,
     <<"{", "%", " ", "i", "f", " ", "a", " ", "%", "}">>,
     <<"{", "%", " ", "e", "n", "d", "i", "f", " ", "%", "}">>,
     <<"x">>, <<"\n">>}

\* the texts of at most n pieces of a vocabulary
RECURSIVE TextsOver(_, _)
TextsOver(vocabulary, n) ==
    IF n = 0 THEN {<<>>}
    ELSE LET shorter == TextsOver(vocabulary, n - 1)
         IN  shorter \cup {t \o piece : t \in shorter, piece \in vocabulary}

\* lines 83-84: tokenize(text) is entered with a template text
InitTemplates ==
    /\ text \in TextsOver(CommentVocabulary, MaxCommentPieces)
                \cup TextsOver(BraceVocabulary, MaxBracePieces)
                \cup TextsOver(ConstructVocabulary, MaxConstructs)
    /\ i = 0
    /\ line = 1
    /\ col = 1
    /\ tokens = <<>>
    /\ tpc = "loop"
    /\ terr = NoTError
    /\ trail = <<>>
    /\ limit = [lines |-> WideLines, depth |-> WideDepth]
    /\ check_indent = TRUE
    /\ matcher = <<>>
    /\ depth = 0
    /\ token = NoToken
    /\ vpc = "loop"
    /\ verr = NoError
    /\ ref = <<>>
    /\ wellNested = TRUE
    /\ sameLine = TRUE

SpecTemplates == InitTemplates /\ [][NextTokenize]_vars

(***************************************************************************)
(* Claims about validate, checked under Spec.                              *)
(***************************************************************************)
\* the step consumes an end token
EndTokenStep == token' # token /\ token'.kind \in EndKinds

\* C1: when an end token arrives and the innermost open frame has another
\* tag name, validate fails with "Mismatched tag." and reports the frame's
\* start token and position and the end tag and position, whatever
\* check_indent is and whatever the lines and columns are.
C1_Mismatch ==
    [][(EndTokenStep /\ matcher # <<>> /\ Head(matcher).tag # token'.tag)
       => /\ vpc' = "error"
          /\ verr' = VError("Mismatched tag.", Head(matcher), token'.tag,
                            token'.line, token'.col)]_vars

\* a frame named code under a second frame, closed one line below by a
\* differently named end tag: Mismatched, not Code split
C1_Witness ==
    /\ vpc = "error"
    /\ verr.problem = "Mismatched tag."
    /\ verr.start.tag = "code"
    /\ verr.end_line = verr.start.line + 1
    /\ Len(matcher) = 2

\* C2: an end token that arrives while no construct is open (none was
\* opened, or all were closed) makes validate fail with "No start tag",
\* that token's tag name and its line and column.
C2_NoStartTag ==
    [][(EndTokenStep /\ ref = <<>>)
       => /\ vpc' = "error"
          /\ verr' = VError("No start tag", NoToken, token'.tag, token'.line, token'.col)]_vars

\* "No start tag" after a construct was opened and closed on a later line
C2_Witness ==
    /\ vpc = "error"
    /\ verr.problem = "No start tag"
    /\ ~sameLine
    /\ verr.end_tag = token.tag
    /\ verr.end_line = token.line
    /\ verr.end_col = token.col

\* the step at which the token list is exhausted
EndOfTokensStep == vpc = "loop" /\ vpc' # "loop" /\ token' = token

\* C3: when the tokens are consumed to the end without an error, validate
\* fails with "Missing end tag" if and only if a construct is still open,
\* and returns exactly when none is.
C3_MissingEndTag ==
    [][EndOfTokensStep
       => /\ (ref # <<>>) = (vpc' = "error" /\ verr'.problem = "Missing end tag")
          /\ (ref = <<>>) = (vpc' = "ok")]_vars

\* "Missing end tag" with one frame closed and another still open
C3_Witness ==
    /\ vpc = "error"
    /\ verr.problem = "Missing end tag"
    /\ ~sameLine
    /\ Len(ref) = 1

\* validate has consumed a stream in which every opening construct was
\* closed, properly nested, by an end token of its grammar and name
WellFormedInput == vpc # "loop" /\ wellNested /\ ref = <<>>

\* C4 as stated: on well-formed input validate succeeds.
C4_Original == WellFormedInput => vpc = "ok"

\* C4 amended: on well-formed input validate raises none of "Mismatched
\* tag.", "No start tag", "Missing end tag"; it succeeds when every closing
\* construct is on its opener's line, and fails otherwise only with one of
\* the two formatting problems.
C4_WellFormed ==
    /\ (vpc # "loop" /\ wellNested)
          => /\ verr.problem \notin {"Mismatched tag.", "No start tag"}
             /\ verr.problem = "Missing end tag" => ref # <<>>
    /\ WellFormedInput
          => /\ vpc = "error" => verr.problem \in {"Bad indentation.",
                                                  "Code tag is split across two lines."}
             /\ sameLine => vpc = "ok"

\* a well-formed stream accepted although a closer stands on a later line
\* than its opener
C4_Witness ==
    /\ WellFormedInput
    /\ vpc = "ok"
    /\ token.kind \in EndKinds
    /\ ~sameLine

\* C5 as stated: with check_indent = FALSE validate fails neither with "Bad
\* indentation." nor with "Code tag is split across two lines.".
C5_Original ==
    ~check_indent => verr.problem \notin {"Bad indentation.",
                                          "Code tag is split across two lines."}

\* C5 amended: with check_indent = FALSE validate never fails with "Bad
\* indentation."; the code-split check is not governed by the flag, so the
\* errors left are mismatch, no start tag, missing end tag and code split.
C5_NoIndentCheck ==
    ~check_indent => verr.problem \in {"", "Mismatched tag.", "No start tag",
                                       "Missing end tag",
                                       "Code tag is split across two lines."}

\* check_indent = FALSE and validate stopped at a code tag closed one line below
C5_Witness ==
    /\ ~check_indent
    /\ vpc = "error"
    /\ verr.problem = "Code tag is split across two lines."
    /\ verr.end_col # verr.start.col

\* C6: with check_indent = TRUE, a frame and an end token of equal tag names
\* fail with "Bad indentation." exactly when end.line > frame.line + max_lines
\* and end.col # frame.col, max_lines being 3 for "a" and 1 otherwise.
C6_BadIndentation ==
    [][(EndTokenStep /\ check_indent /\ matcher # <<>> /\ Head(matcher).tag = token'.tag)
       => ((vpc' = "error" /\ verr'.problem = "Bad indentation.")
           = (/\ token'.line > Head(matcher).line + (IF token'.tag = "a" THEN 3 ELSE 1)
              /\ token'.col # Head(matcher).col))]_vars

\* an <a> whose </a> starts 4 lines later at another column
C6_Witness ==
    /\ vpc = "error"
    /\ verr.problem = "Bad indentation."
    /\ verr.start.tag = "a"
    /\ verr.end_line = verr.start.line + 4
    /\ verr.end_col # verr.start.col


\* C7: a frame named code whose end token has the same name and stands on
\* frame.line + 1 makes validate fail with "Code tag is split across two
\* lines."; that failure comes only for a pair on which neither the
\* mismatch test nor the indentation test fired.
C7_CodeSplit ==
    [][/\ (EndTokenStep /\ matcher # <<>> /\ Head(matcher).tag = "code"
              /\ token'.tag = "code" /\ token'.line = Head(matcher).line + 1)
          => (vpc' = "error" /\ verr'.problem = "Code tag is split across two lines.")
       /\ (vpc = "loop" /\ verr'.problem = "Code tag is split across two lines.")
          => /\ EndTokenStep /\ matcher # <<>>
             /\ Head(matcher).tag = token'.tag
             /\ ~(/\ check_indent
                  /\ token'.line > Head(matcher).line + (IF token'.tag = "a" THEN 3 ELSE 1)
                  /\ token'.col # Head(matcher).col)]_vars

\* with formatting checks on, <code> closed one line below at another column
C7_Witness ==
    /\ check_indent
    /\ vpc = "error"
    /\ verr.problem = "Code tag is split across two lines."
    /\ verr.start.tag = "code" /\ verr.end_tag = "code"
    /\ verr.end_line = verr.start.line + 1
    /\ verr.end_col # verr.start.col

\* C8: a django_start token pushes a frame if and only if its tag name is one
\* of autoescape, block, comment, for, if, ifequal, verbatim, blocktrans,
\* trans, raw; any other Django start tag leaves the frames as they are and
\* raises nothing, though it has no closer.
C8_DjangoBlockTags ==
    [][(token' # token /\ token'.kind = "django_start")
       => /\ vpc' = "loop" /\ verr' = verr
          /\ IF token'.tag \in {"autoescape", "block", "comment", "for", "if", "ifequal",
                                "verbatim", "blocktrans", "trans", "raw"}
             THEN matcher' = <<token'>> \o matcher /\ depth' = depth + 1
             ELSE matcher' = matcher /\ depth' = depth]_vars

\* {% csrf_token %} is the last token, nothing closes it, no frame is open
\* and validate returns
C8_Witness ==
    /\ vpc = "ok"
    /\ token.kind = "django_start"
    /\ token.tag = "csrf_token"
    /\ matcher = <<>>
    /\ depth = 0

(***************************************************************************)
(* Claims about tokenize, checked under SpecTokenize.                      *)
(***************************************************************************)
\* the number of " among t[a], ..., t[b - 1]
RECURSIVE QuotesBetween(_, _, _)
QuotesBetween(t, a, b) ==
    IF a >= b THEN 0 ELSE (IF At(t, a) = "\"" THEN 1 ELSE 0) + QuotesBetween(t, a + 1, b)

\* the cursor is at the < of an HTML tag (not of a comment) that no > ends:
\* every later > stands inside a quoted value
AtUnterminatedTag ==
    /\ tpc = "loop"
    /\ i < Len(text)
    /\ At(text, i) = "<"
    /\ PySlice(text, i, i + 4) # <<"<", "!", "-", "-">>
    /\ \A j \in (i + 1)..(Len(text) - 1) :
          At(text, j) = ">" => QuotesBetween(text, i + 1, j) % 2 = 1

\* C9 as stated: an HTML tag with no terminating > before the end of input
\* makes tokenize fail with Tag missing ">", also when a quote is still open.
C9_Original ==
    [][AtUnterminatedTag => (tpc' = "error" /\ terr'.message = "Tag missing \">\"")]_vars

\* C9 amended: an HTML tag with no terminating > before the end of input
\* makes tokenize fail with Tag missing ">" when the tag holds an even number
\* of ", and with Unbalanced Quotes when a quote is still open at the end of
\* input; the error carries the line and column of the tag's <.
C9_TagMissingGt ==
    [][AtUnterminatedTag
       => /\ tpc' = "error"
          /\ terr'.exc = "TemplateParserException"
          /\ terr'.located /\ terr'.line = line /\ terr'.col = col
          /\ terr'.message = IF QuotesBetween(text, i + 1, Len(text)) % 2 = 0
                             THEN "Tag missing \">\""
                             ELSE "Unbalanced Quotes"]_vars

\* a tag after some text, with a closed quoted value and no >
C9_Witness ==
    /\ tpc = "error"
    /\ terr.message = "Tag missing \">\""
    /\ i > 0
    /\ \E k \in 1..Len(terr.line_content) : terr.line_content[k] = "\""

\* the characters of a tag name, among those of the texts
IsName(w) == w # <<>> /\ \A k \in 1..Len(w) : w[k] \in {"b", "r", "l", "i", "n", "k"}

\* the position of the cursor after a token
RawEnd(tk) ==
    LET n == CountNewlines(tk.s)
    IN  [line |-> tk.line + n,
         col  |-> IF n = 0 THEN tk.col + Len(tk.s)
                  ELSE 1 + Len(tk.s) - (CHOOSE k \in 1..Len(tk.s) :
                                          /\ tk.s[k] = "\n"
                                          /\ \A m \in (k + 1)..Len(tk.s) : tk.s[m] # "\n")]

\* C10: every HTML tag whose raw text ends with /> and whose name NAME (the
\* first word after <, the closing slash apart) is not link, meta or !DOCTYPE
\* is an html_singleton token with tag NAME, followed at once by an
\* html_singleton_end token with tag NAME, raw text "</" NAME ">", line_span 1
\* and the position of the cursor after the singleton; <br/> included.
C10_Singleton ==
    \A k \in 1..Len(tokens) :
        LET tk == tokens[k]
            name == FirstWord(PySlice(tk.s, 1, -2))
        IN  (/\ tk.kind \in {"html_start", "html_singleton", "html_special"}
             /\ PyFrom(tk.s, Len(tk.s) - 2) = <<"/", ">">>
             /\ IsName(name)
             /\ name # <<"l", "i", "n", "k">>)
            => /\ tk.kind = "html_singleton"
               /\ tk.tag = name
               /\ k < Len(tokens)
               /\ tokens[k + 1] = RawToken("html_singleton_end", <<"<", "/">> \o name \o <<">">>,
                                           name, RawEnd(tk).line, RawEnd(tk).col, 1)

\* the characters of the items of a trail, one after the other
RECURSIVE Concat(_)
Concat(items) ==
    IF items = <<>> THEN <<>> ELSE Head(items).s \o Concat(Tail(items))

\* the items of the trail that tokenize read from the text
FromText(items) ==
    SelectSeq(items, LAMBDA item : item.kind # "html_singleton_end")

\* the trail holds the tokens, in order, between the skipped characters
TrailHoldsTokens ==
    LET emitted == SelectSeq(trail, LAMBDA item : item.kind # "text")
    IN  /\ Len(emitted) = Len(tokens)
        /\ \A k \in 1..Len(tokens) :
              emitted[k].kind = tokens[k].kind /\ emitted[k].s = tokens[k].s

\* C11 as stated: the raw texts of all the returned tokens, with the skipped
\* characters between them, give the text back
C11_Original ==
    tpc = "done" => Concat(trail) = text

\* C11: when tokenize returns, the raw texts of the tokens other than the
\* html_singleton_end tokens it made up, with the skipped characters between
\* them, give the text back; while it runs they give back the text up to the cursor
C11_RoundTrip ==
    /\ TrailHoldsTokens
    /\ tpc = "done" => Concat(FromText(trail)) = text
    /\ tpc = "loop" => Concat(FromText(trail)) = PySlice(text, 0, i)

\* tokenize returned for a text with skipped characters, a tag and a singleton
C11_Witness ==
    /\ tpc = "done"
    /\ \E k \in 1..Len(trail) : trail[k].kind = "text"
    /\ \E k \in 1..Len(trail) : trail[k].kind = "html_singleton_end"
    /\ \E k \in 1..Len(trail) : trail[k].kind \in {"handlebars_start", "django_start", "html_start"}

\* (line, col) of a comes before (line, col) of b
Before(a, b) ==
    a.line < b.line \/ (a.line = b.line /\ a.col < b.col)

\* C12 as stated: of two consecutive tokens the later one is at a strictly
\* greater (line, column)
C12_Original ==
    \A k \in 1..(Len(tokens) - 1) : Before(tokens[k], tokens[k + 1])

\* C12: of two consecutive tokens the later one is at a strictly greater
\* (line, column) when the earlier one was read from the text, and at the same
\* or a greater one when the earlier one is a made-up html_singleton_end
C12_Ordered ==
    \A k \in 1..(Len(tokens) - 1) :
        IF tokens[k].kind = "html_singleton_end"
        THEN ~Before(tokens[k + 1], tokens[k])
        ELSE Before(tokens[k], tokens[k + 1])

\* tokenize returned a token right behind a singleton tag, and later tokens
C12_Witness ==
    /\ tpc = "done"
    /\ Len(tokens) >= 4
    /\ tokens[2].kind = "html_singleton_end"
    /\ tokens[3].line = tokens[2].line /\ tokens[3].col = tokens[2].col
    /\ Before(tokens[3], tokens[4])

\* the cursor is at a comment opener that no --> follows
AtUnclosedComment ==
    /\ tpc = "loop"
    /\ i < Len(text)
    /\ looking_at_comment
    /\ \A k \in (i + 4)..Len(text) : PySlice(text, k, k + 3) # <<"-", "-", ">">>

\* the offsets of the < characters that the scan of the comment at the cursor reads
SeenLt ==
    {k \in (i + 7)..(Len(text) - 1) : At(text, k) = "<"}

\* C13: where the cursor is at a comment opener that no --> follows, tokenize
\* fails with Unclosed comment, and the snippet is the text from the opener up
\* to the first < that the scan read, when it read one
C13_UnclosedComment ==
    [][AtUnclosedComment =>
          /\ tpc' = "error"
          /\ terr'.exc = "TemplateParserException"
          /\ terr'.message = "Unclosed comment"
          /\ SeenLt # {} =>
                terr'.line_content = PySlice(text, i, CHOOSE k \in SeenLt : \A m \in SeenLt : k <= m)]_vars

\* the offsets, from the body of the tag at the cursor on, where the two
\* characters c } stand
Closers(c) ==
    {k \in (i + 2)..(Len(text) - 2) : At(text, k) = c /\ At(text, k + 1) = "}"}

\* what C14 says of the iteration at an opener whose scanner looks for c }:
\* the token's raw text is the slice through the first c }, or tokenize fails
\* with the Tag missing message when there is none; a start tag whose slice
\* holds no name is left aside
SliceThroughCloser(c, message, start) ==
    IF Closers(c) # {}
    THEN LET s == PySlice(text, i, (CHOOSE k \in Closers(c) : \A m \in Closers(c) : k <= m) + 2)
         IN  \/ start /\ FirstWord(PySlice(s, 3, -2)) = <<>>
             \/ /\ tpc' = "loop"
                /\ tokens' = Append(tokens, tokens'[Len(tokens')])
                /\ tokens'[Len(tokens')].s = s
                /\ i' = i + Len(s)
    ELSE tpc' = "error" /\ terr'.message = message

\* C14: at a handlebars or Django opener the scanner returns the slice from the
\* opener through the first }} or %}, and fails with Tag missing only when
\* there is none; a lone } or % in the body or at the end changes nothing
C14_DelimiterScan ==
    [][(tpc = "loop" /\ i < Len(text)) =>
          /\ (looking_at_handlebars_start \/ looking_at_handlebars_end) =>
                SliceThroughCloser("}", "Tag missing \"}}\"", looking_at_handlebars_start)
          /\ (looking_at_django_start \/ looking_at_django_end) =>
                SliceThroughCloser("%", "Tag missing \"%}\"", looking_at_django_start)]_vars

\* the messages of the lexical errors
LexicalMessages ==
    {"Unclosed comment", "Tag name missing", "Unbalanced Quotes", "Tag missing \">\"",
     "Tag missing \"}}\"", "Tag missing \"%}\""}

\* C15: a call of tokenize that returns no token list ends in one
\* TemplateParserException that carries the lexical message, the line and
\* column where the construct began, and the snippet; no other error escapes
C15_LocatedError ==
    tpc = "error" =>
        /\ terr.exc = "TemplateParserException"
        /\ terr.message \in LexicalMessages
        /\ terr.located
        /\ terr.line = line /\ terr.col = col

\* the closure made for start token tok stands for frame fr of the reference stack
FrameOf(tok, fr) ==
    /\ fr.grammar = Grammar(tok.kind)
    /\ fr.tag = tok.tag
    /\ fr.line = tok.line

\* while no error is raised the chain of closures is the reference stack:
\* as many closures as frames, state.depth counts them, and the closure at
\* each place stands for the frame at that place
ChainIsStack ==
    vpc \in {"loop", "ok"} =>
        /\ depth = Len(ref)
        /\ depth >= 0
        /\ (matcher = <<>>) = (ref = <<>>)
        /\ Len(matcher) = Len(ref)
        /\ \A k \in 1..Len(matcher) : FrameOf(matcher[k], ref[k])

\* C16: the chain of closures refines a LIFO stack: state.depth is the number
\* of frames and never negative, state.matcher is no_start_tag exactly when the
\* stack is empty, and an end token is validated against the top frame alone:
\* it fails against that frame, or pops it and restores the matcher of the
\* frame beneath
C16_Refinement ==
    [][/\ ChainIsStack
       /\ ChainIsStack'
       /\ (EndTokenStep /\ ref # <<>>) =>
             IF vpc' = "error"
             THEN FrameOf(verr'.start, Head(ref)) /\ matcher' = matcher /\ depth' = depth
             ELSE /\ token'.tag = Head(ref).tag
                  /\ ref' = Tail(ref)
                  /\ matcher' = Tail(matcher)
                  /\ depth' = depth - 1
       /\ (EndTokenStep /\ ref = <<>>) =>
             vpc' = "error" /\ verr'.problem = "No start tag"]_vars

\* an end token closed the inner one of two open constructs
C16_Witness ==
    /\ vpc = "loop"
    /\ token.kind \in EndKinds
    /\ depth = 1
    /\ Len(matcher) = 1
    /\ matcher[1].line < token.line

\* the 1-based line of offset k of the text
LineAt(k) == 1 + CountNewlines(PySlice(text, 0, k))

\* the 1-based column of offset k of the text: one more than the number of
\* characters of text[0:k] behind its last newline
ColAt(k) ==
    LET newlines == {j \in 0..(k - 1) : At(text, j) = "\n"}
    IN  IF newlines = {} THEN k + 1
        ELSE k - (CHOOSE j \in newlines : \A m \in newlines : m <= j)

\* the offset in the text where item m of the trail begins
OffsetOf(m) == Len(Concat(FromText(SubSeq(trail, 1, m - 1))))

\* the place in the token list of the token that is item m of the trail
TokenIndex(m) ==
    Len(SelectSeq(SubSeq(trail, 1, m), LAMBDA item : item.kind # "text"))

\* C17: state.line and state.col are the line and column of offset state.i;
\* so every token read from the text carries the line and column of its first
\* character, and its line_span is one more than the newlines of its raw text
C17_Cursor ==
    /\ line = LineAt(i)
    /\ col = ColAt(i)
    /\ \A m \in 1..Len(trail) :
          trail[m].kind \notin {"text", "html_singleton_end"} =>
              LET tk == tokens[TokenIndex(m)]
              IN  /\ tk.s = trail[m].s
                  /\ tk.line = LineAt(OffsetOf(m))
                  /\ tk.col = ColAt(OffsetOf(m))
                  /\ tk.line_span = 1 + CountNewlines(tk.s)

\* tokenize returned a tag that begins on the second line and ends on the third
C17_Witness ==
    /\ tpc = "done"
    /\ line = 3
    /\ col = 2
    /\ \E k \in 1..Len(tokens) :
          tokens[k].line = 2 /\ tokens[k].col = 1 /\ tokens[k].line_span = 2

\* the offsets of the > behind the < at the cursor with an even number of "
\* between the two
ClosingGts ==
    {j \in (i + 1)..(Len(text) - 1) :
        At(text, j) = ">" /\ QuotesBetween(text, i + 1, j) % 2 = 0}

\* the cursor is at the < of an HTML tag (not of a comment) that some > ends
AtTerminatedTag ==
    /\ tpc = "loop"
    /\ i < Len(text)
    /\ At(text, i) = "<"
    /\ ~looking_at_comment
    /\ ClosingGts # {}

\* C18: an HTML tag ends at the first > behind its < with an even number of "
\* before it, and a > with an odd number never ends it: the step gives one
\* token whose raw text runs from the < through that >, unless a start tag has
\* no name
C18_QuotedGt ==
    [][AtTerminatedTag =>
          LET j == CHOOSE j \in ClosingGts : \A m \in ClosingGts : j <= m
              s == PySlice(text, i, j + 1)
          IN  IF looking_at_html_start /\ FirstWord(PySlice(text, i + 1, j)) = <<>>
              THEN tpc' = "error" /\ terr'.message = "Tag name missing"
              ELSE /\ tpc' = "loop"
                   /\ i' = j + 1
                   /\ Len(tokens') > Len(tokens)
                   /\ tokens'[Len(tokens) + 1].s = s
                   /\ tokens'[Len(tokens) + 1].kind \in
                          {"html_start", "html_end", "html_special", "html_singleton"}
                   /\ \A k \in 1..Len(tokens) : tokens'[k] = tokens[k]]_vars

\* tokenize returned one html_start token, the whole text, with a > between quotes
C18_Witness ==
    /\ tpc = "done"
    /\ Len(tokens) = 1
    /\ tokens[1].kind = "html_start"
    /\ tokens[1].s = text
    /\ \E k \in 2..(Len(text) - 1) :
          text[k] = ">" /\ QuotesBetween(text, 1, k - 1) % 2 = 1

\* C19: tokenize terminates: a step is taken only while the loop runs, an
\* iteration ends in an error or moves state.i forward, by 1 for a skipped
\* character and by the length of the raw text, which is not empty, for a
\* token; state.i never goes back nor beyond the text, and the loop is left
\* once state.i has reached the end of the text
C19_Progress ==
    [][/\ tpc = "loop"
       /\ i' >= i
       /\ i' <= Len(text)
       /\ i < Len(text) =>
             \/ tpc' = "error" /\ i' = i
             \/ /\ tpc' = "loop"
                /\ i' > i
                /\ i' - i = IF tokens' = tokens THEN 1 ELSE Len(tokens'[Len(tokens) + 1].s)
       /\ i >= Len(text) => tpc' = "done"]_vars

\* tokenize returned after iterations that skipped characters and iterations
\* that made tokens
C19_Witness ==
    /\ tpc = "done"
    /\ i = Len(text)
    /\ Len(tokens) >= 2
    /\ Len(trail) > Len(tokens)
    /\ \E k \in 1..Len(tokens) : Len(tokens[k].s) >= 9

\* the problem of closing a frame, from the two names, lines and columns and
\* check_indent alone; "" stands for none
ProblemOf(start_tag, start_line, start_col, end_tag, end_line, end_col, indent) ==
    IF start_tag # end_tag THEN "Mismatched tag."
    ELSE IF indent /\ end_line > start_line + (IF start_tag = "a" THEN 3 ELSE 1)
                   /\ end_col # start_col
         THEN "Bad indentation."
         ELSE IF start_tag = "code" /\ end_line = start_line + 1
              THEN "Code tag is split across two lines."
              ELSE ""

\* C20: what becomes of an end token that meets the top frame is fixed by the
\* two tag names, lines and columns and by check_indent, whatever the kinds of
\* the two tokens: with equal names an end token of any grammar closes a frame
\* opened by any grammar
C20_GrammarBlind ==
    [][(EndTokenStep /\ matcher # <<>>) =>
          LET top == Head(matcher)
              problem == ProblemOf(top.tag, top.line, top.col,
                                   token'.tag, token'.line, token'.col, check_indent)
          IN  IF problem = ""
              THEN vpc' = "loop" /\ matcher' = Tail(matcher) /\ depth' = depth - 1
              ELSE vpc' = "error" /\ verr'.problem = problem /\ verr'.start = top]_vars

\* validate returned for tokens with a construct closed by an end token of
\* another grammar
C20_Witness ==
    /\ vpc = "ok"
    /\ token.kind \in EndKinds
    /\ ~wellNested

====
